---- MODULE Spec2Model ----
(***************************************************************************)
(* A model of DatabaseService (src/src/services/database.ts): one adapter  *)
(* instance, its three handle slots, the driver handles it has created,    *)
(* and the outcome of the last call made on it; and of the command shell   *)
(* around it: the shared adapter reference, the handles of the adapters it *)
(* no longer refers to, and the last reply.                                *)
(*                                                                         *)
(* Strings that the code inspects character by character (column values,   *)
(* table and column names, the exported text) are sequences of one         *)
(* character strings.  Error messages, which the code only passes on, are  *)
(* plain strings.                                                          *)
(***************************************************************************)
EXTENDS Integers, Sequences, FiniteSets, TLC

(* Bounds of the model. *)
MaxHandles == 3
MaxRows == 2
MaxAdapters == 2

(* An empty handle slot (an optional field that was never assigned). *)
NoHandle == 0

(* config.type: the three members of DatabaseType, and "other" for a value *)
(* outside the type, which the default branches of the methods handle.     *)
KnownTypes == {"postgres", "mysql", "firestore"}
DatabaseType == KnownTypes \cup {"other"}

(* Messages a backend driver may report. *)
DriverMessages == {"ECONNREFUSED", "relation does not exist"}

VARIABLES
  config,            \* this.config.type
  postgresClient,    \* this.postgresClient: a handle id or NoHandle
  mysqlConnection,   \* this.mysqlConnection: a handle id or NoHandle
  firestoreClient,   \* this.firestoreClient: a handle id or NoHandle
  handles,           \* the driver handles this instance created, by id
  connectCalled,     \* connect() has been called on the instance
  connectSucceeded,  \* some connect() call has completed without error
  last,              \* the outcome of the last completed call
  driver,            \* what the driver saw during that call
  dbService,         \* the shell's reference: "null" or "adapter"
  abandoned,         \* the handles of the adapters dbService referred to before
  reply,             \* the shell's last reply
  started,           \* a connection command has been started
  connected          \* how many relational connection commands succeeded

(* The adapter dbService refers to (in Spec and SpecExport: the adapter). *)
adapter == <<config, postgresClient, mysqlConnection, firestoreClient, handles,
             connectCalled, connectSucceeded, last, driver>>

shell == <<dbService, abandoned, reply, started, connected>>

vars == <<config, postgresClient, mysqlConnection, firestoreClient, handles,
          connectCalled, connectSucceeded, last, driver,
          dbService, abandoned, reply, started, connected>>

slots == <<postgresClient, mysqlConnection, firestoreClient>>

(***************************************************************************)
(* Outcomes of a call.                                                     *)
(***************************************************************************)
Return(v) ==
  [status |-> "ok", class |-> "none", msg |-> "", value |-> v]

Throw(c, m) ==
  [status |-> "error", class |-> c, msg |-> m, value |-> <<>>]

(* A call through an empty slot after a non-null assertion: the runtime's *)
(* TypeError for a property read on undefined.                             *)
NullReference ==
  Throw("TypeError", "Cannot read properties of undefined")

(* The awaited driver call settled with resp: its rows, or its error       *)
(* rethrown as it is.                                                      *)
Await(resp, v) ==
  IF resp.ok THEN Return(v) ELSE Throw("Backend", resp.msg)

(* A handler's run: its outcome, the handle it called and how many driver  *)
(* calls it issued.                                                        *)
Ran(out, h, n) == [out |-> out, handle |-> h, calls |-> n]

NoCall(out) == Ran(out, NoHandle, 0)

OneCall(h, out) == Ran(out, h, 1)

(* The responses a driver can give to a call. *)
Failures == {[ok |-> FALSE, rows |-> <<>>, msg |-> m] : m \in DriverMessages}

Successes(rowsets) == {[ok |-> TRUE, rows |-> r, msg |-> ""] : r \in rowsets}

NoResponse == [ok |-> TRUE, rows |-> <<>>, msg |-> ""]

(* A call on an open handle is answered with rows or with an error; a call *)
(* on a failed or closed handle with an error; a call on a handle whose    *)
(* connect is pending is answered only after that has settled.             *)
DriverResponses(h, rowsets) ==
  CASE handles[h].state = "open" -> Successes(rowsets) \cup Failures
    [] handles[h].state = "connecting" -> {}
    [] OTHER -> Failures

(* resp is what the environment can answer to the run r of a handler. *)
Answers(r, resp, rowsets) ==
  IF r.calls = 0 THEN resp = NoResponse
  ELSE resp \in DriverResponses(r.handle, rowsets)

(* The record of a completed call op with argument arg. *)
Completed(op, arg, r) ==
  [op |-> op, arg |-> arg, status |-> r.out.status, class |-> r.out.class,
   msg |-> r.out.msg, value |-> r.out.value]

(* What the driver saw of the call: how often and on which handle it was   *)
(* called, the rows it returned and the error it reported.                 *)
Seen(r, resp) ==
  [calls |-> r.calls, handle |-> r.handle,
   rows |-> IF r.calls > 0 /\ resp.ok THEN resp.rows ELSE <<>>,
   failure |-> IF r.calls > 0 /\ ~resp.ok THEN resp.msg ELSE "none"]

NoReply == [cmd |-> "", isError |-> FALSE, text |-> <<>>]

(* The shell before any command: let dbService = null. *)
NoCommandYet ==
  /\ dbService = "null"
  /\ abandoned = <<>>
  /\ reply = NoReply
  /\ started = FALSE
  /\ connected = 0

Init ==
  /\ NoCommandYet
  /\ config \in DatabaseType
  /\ postgresClient = NoHandle
  /\ mysqlConnection = NoHandle
  /\ firestoreClient = NoHandle
  /\ handles = <<>>
  /\ connectCalled = FALSE
  /\ connectSucceeded = FALSE
  /\ last = [op |-> "new", arg |-> <<>>, status |-> "ok", class |-> "none",
             msg |-> "", value |-> <<>>]
  /\ driver = [calls |-> 0, handle |-> NoHandle, rows |-> <<>>, failure |-> "none"]

(***************************************************************************)
(* What the backends hold, as far as the adapter reads it.                 *)
(***************************************************************************)
users == <<"u", "s", "e", "r", "s">>
flags == <<"f", "l", "a", "g", "s">>
id == <<"i", "d">>
name == <<"n", "a", "m", "e">>
active == <<"a", "c", "t", "i", "v", "e">>

TableNames == {users, flags}

idColumn == [name |-> id, type |-> "integer", nullable |-> FALSE]
nameColumn == [name |-> name, type |-> "varchar", nullable |-> TRUE]

(* Rows of the information_schema.columns aggregation, per dialect.  The    *)
(* MySQL rows carry the columns as GROUP_CONCAT text: JSON object           *)
(* fragments, cut short when the text exceeds the server's length limit.    *)
PostgresTableRows ==
  {<<>>, <<[table_name |-> users, columns |-> <<idColumn, nameColumn>>]>>}

MysqlTableRows ==
  {<<>>,
   <<[tableName |-> users, columns |-> [cut |-> FALSE, objects |-> <<idColumn, nameColumn>>]]>>,
   <<[tableName |-> users, columns |-> [cut |-> TRUE, objects |-> <<idColumn>>]]>>}

FirestoreCollections == {<<>>, <<[id |-> users]>>}

TableRows ==
  CASE config = "postgres" -> PostgresTableRows
    [] config = "mysql" -> MysqlTableRows
    [] config = "firestore" -> FirestoreCollections
    [] OTHER -> {<<>>}

TriggerRows ==
  {<<>>, <<[name |-> "trg", table |-> users, event |-> "INSERT",
            timing |-> "BEFORE", statement |-> "EXECUTE FUNCTION f()"]>>}

FunctionRows ==
  {<<>>, <<[name |-> "f", language |-> "plpgsql", returnType |-> "trigger",
            arguments |-> "", definition |-> "BEGIN END"]>>}

Queries == {"SELECT 1", "SELEC"}

QueryRows == {<<>>, <<[one |-> 1]>>}

createUsers == <<"C", "R", "E", "A", "T", "E">>

SchemaRows ==
  CASE config = "postgres" -> {<<>>, <<[create_table_sql |-> createUsers]>>}
    [] config = "mysql" -> {<<>>, <<[CreateTable |-> createUsers]>>}
    [] OTHER -> {<<>>}

Responses(rowsets) == Successes(rowsets) \cup Failures \cup {NoResponse}

(***************************************************************************)
(* connect and disconnect.                                                 *)
(***************************************************************************)
NextHandle == Len(handles) + 1

(* connect() on a relational kind, up to its await: the postgres branch     *)
(* stores the new client before awaiting its connect(); the mysql branch   *)
(* awaits createConnection() and stores nothing yet.                       *)
ConnectBegin(limit) ==
  /\ config \in {"postgres", "mysql"}
  /\ Len(handles) < limit
  /\ handles' = Append(handles, [driver |-> config, state |-> "connecting"])
  /\ postgresClient' = IF config = "postgres" THEN NextHandle ELSE postgresClient
  /\ connectCalled' = TRUE
  /\ UNCHANGED <<config, mysqlConnection, firestoreClient, connectSucceeded,
                 last, driver>>

(* The awaited driver call of a pending connect() settles: the call         *)
(* completes, or the driver's error is thrown to the caller.  The mysql    *)
(* branch stores the connection it was given.                              *)
ConnectSettle ==
  \E h \in DOMAIN handles, resp \in Successes({<<>>}) \cup Failures :
    /\ handles[h].state = "connecting"
    /\ handles' = [handles EXCEPT ![h].state = IF resp.ok THEN "open" ELSE "failed"]
    /\ mysqlConnection' = IF config = "mysql" /\ resp.ok THEN h ELSE mysqlConnection
    /\ connectSucceeded' = (connectSucceeded \/ resp.ok)
    /\ last' = Completed("connect", <<>>, OneCall(h, Await(resp, <<>>)))
    /\ driver' = Seen(OneCall(h, Await(resp, <<>>)), resp)
    /\ UNCHANGED <<config, postgresClient, firestoreClient, connectCalled>>

(* connect() on firestore: the client is constructed and stored without    *)
(* an await; a constructor that throws leaves the slot as it was.          *)
ConnectFirestore(limit) ==
  \E resp \in Successes({<<>>}) \cup Failures :
    /\ config = "firestore"
    /\ Len(handles) < limit
    /\ connectCalled' = TRUE
    /\ connectSucceeded' = (connectSucceeded \/ resp.ok)
    /\ handles' = IF resp.ok
                  THEN Append(handles, [driver |-> config, state |-> "open"])
                  ELSE handles
    /\ firestoreClient' = IF resp.ok THEN NextHandle ELSE firestoreClient
    /\ last' = Completed("connect", <<>>,
                         OneCall(IF resp.ok THEN NextHandle ELSE NoHandle,
                                 Await(resp, <<>>)))
    /\ driver' = Seen(OneCall(IF resp.ok THEN NextHandle ELSE NoHandle,
                               Await(resp, <<>>)), resp)
    /\ UNCHANGED <<config, postgresClient, mysqlConnection>>

(* connect() on any other kind: the switch has no default branch.          *)
ConnectOther ==
  /\ config \notin KnownTypes
  /\ connectCalled' = TRUE
  /\ connectSucceeded' = TRUE
  /\ last' = Completed("connect", <<>>, NoCall(Return(<<>>)))
  /\ driver' = Seen(NoCall(Return(<<>>)), NoResponse)
  /\ UNCHANGED <<config, postgresClient, mysqlConnection, firestoreClient, handles>>

(* The slot disconnect() closes: none for firestore and other kinds.       *)
disconnectSlot ==
  CASE config = "postgres" -> postgresClient
    [] config = "mysql" -> mysqlConnection
    [] OTHER -> NoHandle

(* disconnect() that empties the slot once end() has answered.             *)
DisconnectClearing ==
  \E resp \in Successes({<<>>}) \cup Failures \cup {NoResponse} :
    LET h == disconnectSlot
        r == IF h = NoHandle THEN NoCall(Return(<<>>))
             ELSE OneCall(h, Await(resp, <<>>))
    IN /\ h # NoHandle => handles[h].state # "connecting"
       /\ h = NoHandle => resp = NoResponse
       /\ handles' = IF h # NoHandle /\ resp.ok
                     THEN [handles EXCEPT ![h].state = "closed"]
                     ELSE handles
       /\ postgresClient' = IF config = "postgres" THEN NoHandle ELSE postgresClient
       /\ mysqlConnection' = IF config = "mysql" THEN NoHandle ELSE mysqlConnection
       /\ last' = Completed("disconnect", <<>>, r)
       /\ driver' = Seen(r, resp)
       /\ UNCHANGED <<config, firestoreClient, connectCalled, connectSucceeded>>

(* disconnect(): end() on the slot's handle if there is one (optional      *)
(* chaining); the slot keeps its value.  What end() answers on a handle    *)
(* that is not open is the driver's business: either answer is allowed.    *)
(* end() on a handle whose connect is pending answers after it settles.    *)
Disconnect ==
  \E resp \in Successes({<<>>}) \cup Failures \cup {NoResponse} :
    LET h == disconnectSlot
        r == IF h = NoHandle THEN NoCall(Return(<<>>))
             ELSE OneCall(h, Await(resp, <<>>))
    IN /\ h # NoHandle => handles[h].state # "connecting"
       /\ h = NoHandle => resp = NoResponse
       /\ handles' = IF h # NoHandle /\ resp.ok
                     THEN [handles EXCEPT ![h].state = "closed"]
                     ELSE handles
       /\ last' = Completed("disconnect", <<>>, r)
       /\ driver' = Seen(r, resp)
       /\ UNCHANGED <<config, postgresClient, mysqlConnection, firestoreClient,
                      connectCalled, connectSucceeded>>

(***************************************************************************)
(* The catalog operations.  Each handler is a function of the response the *)
(* driver gives to the one call the handler may issue.                     *)
(***************************************************************************)
(* JSON.parse of the bracketed GROUP_CONCAT text: the objects, or a        *)
(* SyntaxError when the text was cut.                                      *)
JSONparse(text) ==
  IF text.cut THEN Throw("SyntaxError", "Unexpected end of JSON input")
  ELSE Return(text.objects)

MysqlTables(rows) ==
  IF \E i \in DOMAIN rows : JSONparse(rows[i].columns).status = "error"
  THEN Throw("SyntaxError", "Unexpected end of JSON input")
  ELSE Return([i \in DOMAIN rows |->
                 [name |-> rows[i].tableName,
                  columns |-> JSONparse(rows[i].columns).value]])

getTables(resp) ==
  CASE config = "postgres" ->
         IF postgresClient = NoHandle THEN NoCall(NullReference)
         ELSE OneCall(postgresClient,
                Await(resp, [i \in DOMAIN resp.rows |->
                               [name |-> resp.rows[i].table_name,
                                columns |-> resp.rows[i].columns]]))
    [] config = "mysql" ->
         IF mysqlConnection = NoHandle THEN NoCall(NullReference)
         ELSE OneCall(mysqlConnection,
                IF resp.ok THEN MysqlTables(resp.rows) ELSE Await(resp, <<>>))
    [] config = "firestore" ->
         IF firestoreClient = NoHandle THEN NoCall(NullReference)
         ELSE OneCall(firestoreClient,
                Await(resp, [i \in DOMAIN resp.rows |->
                               [name |-> resp.rows[i].id, columns |-> <<>>]]))
    [] OTHER -> NoCall(Return(<<>>))

(* getTriggers with the firestore branch taken through the handle, as in  *)
(* getTables.                                                              *)
getTriggersOnFirestore(resp) ==
  CASE config = "postgres" ->
         IF postgresClient = NoHandle THEN NoCall(NullReference)
         ELSE OneCall(postgresClient, Await(resp, resp.rows))
    [] config = "mysql" ->
         IF mysqlConnection = NoHandle THEN NoCall(NullReference)
         ELSE OneCall(mysqlConnection, Await(resp, resp.rows))
    [] config = "firestore" ->
         IF firestoreClient = NoHandle THEN NoCall(NullReference)
         ELSE OneCall(firestoreClient, Await(resp, resp.rows))
    [] OTHER -> NoCall(Return(<<>>))

getTriggers(resp) ==
  CASE config = "postgres" ->
         IF postgresClient = NoHandle THEN NoCall(NullReference)
         ELSE OneCall(postgresClient, Await(resp, resp.rows))
    [] config = "mysql" ->
         IF mysqlConnection = NoHandle THEN NoCall(NullReference)
         ELSE OneCall(mysqlConnection, Await(resp, resp.rows))
    [] config = "firestore" -> NoCall(Return(<<>>))
    [] OTHER -> NoCall(Return(<<>>))

getFunctions(resp) ==
  CASE config = "postgres" ->
         IF postgresClient = NoHandle THEN NoCall(NullReference)
         ELSE OneCall(postgresClient, Await(resp, resp.rows))
    [] config = "mysql" ->
         IF mysqlConnection = NoHandle THEN NoCall(NullReference)
         ELSE OneCall(mysqlConnection, Await(resp, resp.rows))
    [] config = "firestore" -> NoCall(Return(<<>>))
    [] OTHER -> NoCall(Return(<<>>))

(* executeQuery without its firestore branch: firestore falls through to   *)
(* the default branch.                                                     *)
executeQueryWithoutFirestoreBranch(query, resp) ==
  CASE config = "postgres" ->
         IF postgresClient = NoHandle
         THEN NoCall(Throw("NotConnected", "PostgreSQL connection not found"))
         ELSE OneCall(postgresClient, Await(resp, resp.rows))
    [] config = "mysql" ->
         IF mysqlConnection = NoHandle
         THEN NoCall(Throw("NotConnected", "MySQL connection not found"))
         ELSE OneCall(mysqlConnection, Await(resp, resp.rows))
    [] OTHER -> NoCall(Throw("UnknownKind", "Unsupported database type"))

executeQuery(query, resp) ==
  CASE config = "postgres" ->
         IF postgresClient = NoHandle
         THEN NoCall(Throw("NotConnected", "PostgreSQL connection not found"))
         ELSE OneCall(postgresClient, Await(resp, resp.rows))
    [] config = "mysql" ->
         IF mysqlConnection = NoHandle
         THEN NoCall(Throw("NotConnected", "MySQL connection not found"))
         ELSE OneCall(mysqlConnection, Await(resp, resp.rows))
    [] config = "firestore" ->
         NoCall(Throw("Unsupported", "SQL queries are not supported for Firestore"))
    [] OTHER -> NoCall(Throw("UnknownKind", "Unsupported database type"))

(* result.rows[0]?.create_table_sql || '' and result[0]?.['Create Table'] || '' *)
FirstOrEmpty(rows, field) ==
  IF rows = <<>> THEN <<>> ELSE rows[1][field]

(* exportTableSchema catching the driver's error and returning ''.        *)
exportTableSchemaCatching(tableName, resp) ==
  CASE config = "postgres" ->
         IF postgresClient = NoHandle
         THEN NoCall(Throw("NotConnected", "PostgreSQL connection not found"))
         ELSE OneCall(postgresClient,
                Return(FirstOrEmpty(resp.rows, "create_table_sql")))
    [] config = "mysql" ->
         IF mysqlConnection = NoHandle
         THEN NoCall(Throw("NotConnected", "MySQL connection not found"))
         ELSE OneCall(mysqlConnection,
                Return(FirstOrEmpty(resp.rows, "CreateTable")))
    [] config = "firestore" ->
         NoCall(Throw("Unsupported", "SQL schema export is not supported for Firestore"))
    [] OTHER -> NoCall(Throw("UnknownKind", "Unsupported database type"))

exportTableSchema(tableName, resp) ==
  CASE config = "postgres" ->
         IF postgresClient = NoHandle
         THEN NoCall(Throw("NotConnected", "PostgreSQL connection not found"))
         ELSE OneCall(postgresClient,
                Await(resp, FirstOrEmpty(resp.rows, "create_table_sql")))
    [] config = "mysql" ->
         IF mysqlConnection = NoHandle
         THEN NoCall(Throw("NotConnected", "MySQL connection not found"))
         ELSE OneCall(mysqlConnection,
                Await(resp, FirstOrEmpty(resp.rows, "CreateTable")))
    [] config = "firestore" ->
         NoCall(Throw("Unsupported", "SQL schema export is not supported for Firestore"))
    [] OTHER -> NoCall(Throw("UnknownKind", "Unsupported database type"))

(* A call that drops the handle of the configured kind when the driver     *)
(* reported an error.                                                      *)
CallDroppingHandleOnError(op, arg, r, resp, rowsets) ==
  LET drop == r.calls > 0 /\ ~resp.ok
  IN /\ Answers(r, resp, rowsets)
     /\ last' = Completed(op, arg, r)
     /\ driver' = Seen(r, resp)
     /\ postgresClient' = IF drop /\ config = "postgres" THEN NoHandle
                          ELSE postgresClient
     /\ mysqlConnection' = IF drop /\ config = "mysql" THEN NoHandle
                           ELSE mysqlConnection
     /\ firestoreClient' = IF drop /\ config = "firestore" THEN NoHandle
                           ELSE firestoreClient
     /\ UNCHANGED <<config, handles, connectCalled, connectSucceeded>>

(* The whole of a call that leaves the adapter as it is: the handler's run *)
(* r under an answer resp the driver can give it.                          *)
Call(op, arg, r, resp, rowsets) ==
  /\ Answers(r, resp, rowsets)
  /\ last' = Completed(op, arg, r)
  /\ driver' = Seen(r, resp)
  /\ UNCHANGED <<config, postgresClient, mysqlConnection, firestoreClient,
                 handles, connectCalled, connectSucceeded>>

GetTables ==
  \E resp \in Responses(TableRows) :
    Call("getTables", <<>>, getTables(resp), resp, TableRows)

GetTriggers ==
  \E resp \in Responses(TriggerRows) :
    Call("getTriggers", <<>>, getTriggers(resp), resp, TriggerRows)

GetFunctions ==
  \E resp \in Responses(FunctionRows) :
    Call("getFunctions", <<>>, getFunctions(resp), resp, FunctionRows)

ExecuteQuery ==
  \E query \in Queries, resp \in Responses(QueryRows) :
    Call("executeQuery", query, executeQuery(query, resp), resp, QueryRows)

ExportTableSchema ==
  \E tableName \in TableNames, resp \in Responses(SchemaRows) :
    Call("exportTableSchema", tableName, exportTableSchema(tableName, resp),
         resp, SchemaRows)

(***************************************************************************)
(* exportTableData.                                                        *)
(***************************************************************************)
(* Column values as the drivers hand them over. *)
Null == [t |-> "null"]
String(s) == [t |-> "string", s |-> s]
Number(n) == [t |-> "number", n |-> n]
Boolean(b) == [t |-> "boolean", b |-> b]

(* A row object: its keys in order, and the value under each key. *)
Row(keys, vals) == [keys |-> keys, vals |-> vals]

Get(row, col) == row.vals[CHOOSE i \in DOMAIN row.keys : row.keys[i] = col]

(* What the tables may hold: users(id integer, name varchar) and           *)
(* flags(active boolean), every column nullable.                           *)
IdValues == {Null, Number(1), Number(-20)}

NameValues ==
  {Null, String(<<>>), String(<<"a">>), String(<<"'">>),
   String(<<"O", "'", "B">>), String(<<"a", "\\">>),
   String(<<"N", "U", "L", "L">>)}

ActiveValues == {Null, Boolean(TRUE), Boolean(FALSE)}

RowsOf(tableName) ==
  IF tableName = users
  THEN {Row(<<id, name>>, <<i, n>>) : i \in IdValues, n \in NameValues}
  ELSE {Row(<<active>>, <<a>>) : a \in ActiveValues}

(* Every content of the table of at most n rows. *)
Contents(tableName, n) ==
  UNION {[1..k -> RowsOf(tableName)] : k \in 0..n}

Digits == <<"0", "1", "2", "3", "4", "5", "6", "7", "8", "9">>

RECURSIVE NatToString(_)
NatToString(n) ==
  IF n < 10 THEN <<Digits[n + 1]>>
  ELSE NatToString(n \div 10) \o <<Digits[(n % 10) + 1]>>

(* The default textual representation Array.prototype.join gives a value   *)
(* that is not a string.                                                   *)
toString(val) ==
  CASE val.t = "string" -> val.s
    [] val.t = "number" ->
         IF val.n < 0 THEN <<"-">> \o NatToString(0 - val.n) ELSE NatToString(val.n)
    [] val.t = "boolean" ->
         IF val.b THEN <<"t", "r", "u", "e">> ELSE <<"f", "a", "l", "s", "e">>
    [] OTHER -> <<>>

(* val.replace(/'/g, "''") *)
RECURSIVE replaceQuotes(_)
replaceQuotes(s) ==
  IF s = <<>> THEN <<>>
  ELSE (IF Head(s) = "'" THEN <<"'", "'">> ELSE <<Head(s)>>)
       \o replaceQuotes(Tail(s))

(* formatValue without the doubling of quotes.                             *)
formatValueUnescaped(val) ==
  IF val = Null THEN <<"N", "U", "L", "L">>
  ELSE IF val.t = "string" THEN <<"'">> \o val.s \o <<"'">>
  ELSE toString(val)

(* The text one column value contributes to the VALUES list: the callback  *)
(* of columns.map, followed by the conversion join applies to what it      *)
(* returned.                                                               *)
formatValue(val) ==
  IF val = Null THEN <<"N", "U", "L", "L">>
  ELSE IF val.t = "string" THEN <<"'">> \o replaceQuotes(val.s) \o <<"'">>
  ELSE toString(val)

RECURSIVE join(_, _)
join(parts, sep) ==
  IF parts = <<>> THEN <<>>
  ELSE IF Len(parts) = 1 THEN parts[1]
  ELSE parts[1] \o sep \o join(Tail(parts), sep)

InsertInto == <<"I", "N", "S", "E", "R", "T", " ", "I", "N", "T", "O", " ">>
ValuesOpen == <<")", " ", "V", "A", "L", "U", "E", "S", " ", "(">>
CommaSpace == <<",", " ">>

insertStatement(tableName, columns, row) ==
  LET values == [c \in DOMAIN columns |-> formatValue(Get(row, columns[c]))]
  IN InsertInto \o tableName \o <<" ", "(">> \o join(columns, CommaSpace)
     \o ValuesOpen \o join(values, CommaSpace) \o <<")", ";">>

(* insertStatements without the check for zero rows: it joins no          *)
(* statements, and the column list of a missing first row is empty.        *)
insertStatementsUnchecked(tableName, rows) ==
  LET columns == IF Len(rows) = 0 THEN <<>> ELSE rows[1].keys
  IN IF Len(rows) = 0 THEN insertStatement(tableName, columns, Row(<<>>, <<>>))
     ELSE join([r \in DOMAIN rows |-> insertStatement(tableName, columns, rows[r])],
               <<"\n">>)

insertStatements(tableName, rows) ==
  IF Len(rows) = 0 THEN <<>>
  ELSE LET columns == rows[1].keys
       IN join([r \in DOMAIN rows |-> insertStatement(tableName, columns, rows[r])],
               <<"\n">>)

exportTableData(tableName, resp) ==
  CASE config = "postgres" ->
         IF postgresClient = NoHandle
         THEN NoCall(Throw("NotConnected", "PostgreSQL connection not found"))
         ELSE OneCall(postgresClient,
                Await(resp, insertStatements(tableName, resp.rows)))
    [] config = "mysql" ->
         IF mysqlConnection = NoHandle
         THEN NoCall(Throw("NotConnected", "MySQL connection not found"))
         ELSE OneCall(mysqlConnection,
                Await(resp, insertStatements(tableName, resp.rows)))
    [] config = "firestore" ->
         NoCall(Throw("Unsupported", "SQL data export is not supported for Firestore"))
    [] OTHER -> NoCall(Throw("UnknownKind", "Unsupported database type"))

(* exportTableData(tableName) against a table of at most n rows.           *)
ExportTableData(n) ==
  \E tableName \in TableNames :
    \E resp \in Responses(Contents(tableName, n)) :
      Call("exportTableData", tableName, exportTableData(tableName, resp),
           resp, Contents(tableName, n))

(***************************************************************************)
(* The adapter's life: any call at any time.                               *)
(***************************************************************************)
Next ==
  \/ ConnectBegin(MaxHandles) /\ UNCHANGED shell
  \/ ConnectSettle /\ UNCHANGED shell
  \/ ConnectFirestore(MaxHandles) /\ UNCHANGED shell
  \/ ConnectOther /\ UNCHANGED shell
  \/ Disconnect /\ UNCHANGED shell
  \/ GetTables /\ UNCHANGED shell
  \/ GetTriggers /\ UNCHANGED shell
  \/ GetFunctions /\ UNCHANGED shell
  \/ ExecuteQuery /\ UNCHANGED shell
  \/ ExportTableSchema /\ UNCHANGED shell
  \/ ExportTableData(1) /\ UNCHANGED shell

Spec == Init /\ [][Next]_vars

(* Data export over every table content of at most MaxRows rows, on an     *)
(* adapter that connects at most once and exports once.                    *)
NextExport ==
  \/ ConnectBegin(1) /\ UNCHANGED shell
  \/ ConnectSettle /\ UNCHANGED shell
  \/ ConnectFirestore(1) /\ UNCHANGED shell
  \/ ConnectOther /\ UNCHANGED shell
  \/ last.op # "exportTableData" /\ ExportTableData(MaxRows) /\ UNCHANGED shell

SpecExport == Init /\ [][NextExport]_vars

(***************************************************************************)
(* The command shell (src/unnamed/part_001): one shared reference to an    *)
(* adapter, three connection commands that replace it, six operation       *)
(* commands that use it.  config .. driver describe the adapter the        *)
(* reference points to; the handles of the adapters it pointed to before   *)
(* are kept in abandoned.  The shell has no command that calls             *)
(* disconnect().                                                           *)
(***************************************************************************)
NoAdapter == "none"

InitShell ==
  /\ NoCommandYet
  /\ config = NoAdapter
  /\ postgresClient = NoHandle
  /\ mysqlConnection = NoHandle
  /\ firestoreClient = NoHandle
  /\ handles = <<>>
  /\ connectCalled = FALSE
  /\ connectSucceeded = FALSE
  /\ last = [op |-> "new", arg |-> <<>>, status |-> "ok", class |-> "none",
             msg |-> "", value |-> <<>>]
  /\ driver = [calls |-> 0, handle |-> NoHandle, rows |-> <<>>, failure |-> "none"]

ConnectionCommand == [postgres |-> "!pg", mysql |-> "!mysql", firestore |-> "!firestore"]

KindName == [postgres |-> "PostgreSQL", mysql |-> "MySQL", firestore |-> "Firestore"]

MustConnectFirst == "You must connect to a database first!"

(* The reply of a connection command whose connect() returned. *)
SuccessfullyConnected(kind) ==
  [cmd |-> ConnectionCommand[kind], isError |-> FALSE,
   text |-> <<"Successfully connected to ", KindName[kind], " database!">>]

(* The reply of a connection command whose connect() threw. *)
ConnectionError(kind, errorMessage) ==
  [cmd |-> ConnectionCommand[kind], isError |-> TRUE,
   text |-> <<KindName[kind], " connection error: ", errorMessage>>]

(* The handles of the old adapter, had the shell called disconnect() on it *)
(* before replacing the reference.                                         *)
abandonAfterDisconnect(hs) ==
  [h \in DOMAIN hs |->
     [hs[h] EXCEPT !.state = IF @ = "open" THEN "closed" ELSE @]]

(* The handles of the adapter the reference pointed to, once               *)
(* dbService = new DatabaseService(config) has overwritten it: nothing is  *)
(* called on the old adapter.                                              *)
abandon(hs) == hs

(* !pg, !mysql, !firestore up to the await in connect(): the reference is  *)
(* replaced by a new adapter and connect() is called on it.  A relational  *)
(* connect() then waits for the driver; the firestore one has no await     *)
(* inside and the command replies at once.                                 *)
ConnectionCommandBegins(kind) ==
  /\ Len(abandoned) + Len(handles) < MaxAdapters
  /\ dbService' = "adapter"
  /\ started' = TRUE
  /\ abandoned' = abandoned \o abandon(handles)
  /\ config' = kind
  /\ connectCalled' = TRUE
  /\ mysqlConnection' = NoHandle
  /\ UNCHANGED connected
  /\ IF kind \in {"postgres", "mysql"}
     THEN /\ handles' = <<[driver |-> kind, state |-> "connecting"]>>
          /\ postgresClient' = IF kind = "postgres" THEN 1 ELSE NoHandle
          /\ firestoreClient' = NoHandle
          /\ connectSucceeded' = FALSE
          /\ last' = [op |-> "new", arg |-> <<>>, status |-> "ok",
                      class |-> "none", msg |-> "", value |-> <<>>]
          /\ driver' = [calls |-> 0, handle |-> NoHandle, rows |-> <<>>,
                        failure |-> "none"]
          /\ UNCHANGED reply
     ELSE \E resp \in Successes({<<>>}) \cup Failures :
            LET r == OneCall(IF resp.ok THEN 1 ELSE NoHandle, Await(resp, <<>>))
            IN /\ handles' = IF resp.ok
                             THEN <<[driver |-> kind, state |-> "open"]>>
                             ELSE <<>>
               /\ postgresClient' = NoHandle
               /\ firestoreClient' = IF resp.ok THEN 1 ELSE NoHandle
               /\ connectSucceeded' = resp.ok
               /\ last' = Completed("connect", <<>>, r)
               /\ driver' = Seen(r, resp)
               /\ reply' = IF resp.ok THEN SuccessfullyConnected(kind)
                           ELSE ConnectionError(kind, resp.msg)

(* The connect() of the adapter the reference points to settles, and its   *)
(* connection command replies.                                             *)
ConnectionCommandSettles ==
  /\ dbService # "null"
  /\ ConnectSettle
  /\ reply' = IF last'.status = "ok" THEN SuccessfullyConnected(config)
              ELSE ConnectionError(config, last'.msg)
  /\ connected' = IF last'.status = "ok" THEN connected + 1 ELSE connected
  /\ UNCHANGED <<dbService, abandoned, started>>

(* The connect() of an adapter that was replaced while it was pending      *)
(* settles, and its connection command replies.                            *)
AbandonedCommandSettles ==
  \E h \in DOMAIN abandoned, resp \in Successes({<<>>}) \cup Failures :
    /\ abandoned[h].state = "connecting"
    /\ abandoned' = [abandoned EXCEPT ![h].state = IF resp.ok THEN "open" ELSE "failed"]
    /\ reply' = IF resp.ok THEN SuccessfullyConnected(abandoned[h].driver)
                ELSE ConnectionError(abandoned[h].driver, resp.msg)
    /\ connected' = IF resp.ok THEN connected + 1 ELSE connected
    /\ UNCHANGED <<adapter, dbService, started>>

(* An operation command that also refuses an adapter whose connect() has   *)
(* not succeeded.                                                          *)
mustConnectFirstOrAgain == dbService = "null" \/ ~connectSucceeded

(* if (!dbService) *)
mustConnectFirst == dbService = "null"

(* An operation command: refused while the reference is null, otherwise    *)
(* the adapter's operation is called and its result or its error's message *)
(* is the reply.                                                           *)
OperationCommand(cmd, failedTo, stringify, Operation) ==
  IF mustConnectFirst
  THEN /\ reply' = [cmd |-> cmd, isError |-> TRUE, text |-> <<MustConnectFirst>>]
       /\ UNCHANGED <<adapter, dbService, abandoned, started, connected>>
  ELSE /\ Operation
       /\ reply' = IF last'.status = "ok"
                   THEN [cmd |-> cmd, isError |-> FALSE,
                         text |-> <<IF stringify THEN [json |-> last'.value]
                                    ELSE last'.value>>]
                   ELSE [cmd |-> cmd, isError |-> TRUE,
                         text |-> <<failedTo, last'.msg>>]
       /\ UNCHANGED <<dbService, abandoned, started, connected>>

Tables ==
  OperationCommand("!tables", "Failed to get table information: ", TRUE, GetTables)

Triggers ==
  OperationCommand("!triggers", "Failed to get trigger information: ", TRUE, GetTriggers)

Functions ==
  OperationCommand("!functions", "Failed to get function information: ", TRUE, GetFunctions)

Query ==
  OperationCommand("!query", "Failed to execute query: ", TRUE, ExecuteQuery)

ExportDb ==
  OperationCommand("!export-db", "Failed to export table schema: ", FALSE, ExportTableSchema)

ExportData ==
  OperationCommand("!export-data", "Failed to export table data: ", FALSE, ExportTableData(1))

NextShell ==
  \/ \E kind \in KnownTypes : ConnectionCommandBegins(kind)
  \/ ConnectionCommandSettles
  \/ AbandonedCommandSettles
  \/ Tables
  \/ Triggers
  \/ Functions
  \/ Query
  \/ ExportDb
  \/ ExportData

SpecShell == InitShell /\ [][NextShell]_vars

(***************************************************************************)
(* Replaying exported text: how a backend reads the statements.  A string  *)
(* literal ends at a quote that is not doubled.  PostgreSQL (with          *)
(* standard_conforming_strings, its default) takes a backslash as an       *)
(* ordinary character; MySQL (without NO_BACKSLASH_ESCAPES, its default)   *)
(* takes it as the start of an escape sequence.                            *)
(***************************************************************************)
Failed == [ok |-> FALSE, val |-> <<>>, rest |-> <<>>]

Read(v, rest) == [ok |-> TRUE, val |-> v, rest |-> rest]

StartsWith(s, prefix) ==
  /\ Len(s) >= Len(prefix)
  /\ SubSeq(s, 1, Len(prefix)) = prefix

Drop(s, n) == SubSeq(s, n + 1, Len(s))

(* The character an escape sequence \c stands for. *)
Unescape(c) == IF c = "n" THEN "\n" ELSE c

(* The rest of a string literal after its opening quote. *)
RECURSIVE ReadString(_, _)
ReadString(s, dialect) ==
  IF s = <<>> THEN Failed
  ELSE IF Head(s) = "'"
  THEN IF Len(s) >= 2 /\ s[2] = "'"
       THEN LET more == ReadString(Drop(s, 2), dialect)
            IN IF more.ok THEN Read(<<"'">> \o more.val, more.rest) ELSE Failed
       ELSE Read(<<>>, Tail(s))
  ELSE IF Head(s) = "\\" /\ dialect = "mysql"
  THEN IF Len(s) < 2 THEN Failed
       ELSE LET more == ReadString(Drop(s, 2), dialect)
            IN IF more.ok THEN Read(<<Unescape(s[2])>> \o more.val, more.rest)
               ELSE Failed
  ELSE LET more == ReadString(Tail(s), dialect)
       IN IF more.ok THEN Read(<<Head(s)>> \o more.val, more.rest) ELSE Failed

(* The longest prefix of s free of the characters in stops. *)
Word(s, stops) ==
  LET ends == {i \in DOMAIN s : s[i] \in stops}
  IN IF ends = {} THEN s
     ELSE SubSeq(s, 1, (CHOOSE i \in ends : \A j \in ends : i <= j) - 1)

DigitValue(c) == CHOOSE d \in 0..9 : Digits[d + 1] = c

IsDigits(w) ==
  /\ w # <<>>
  /\ \A i \in DOMAIN w : \E d \in 0..9 : Digits[d + 1] = w[i]

RECURSIVE ReadNat(_)
ReadNat(w) ==
  IF Len(w) = 1 THEN DigitValue(w[1])
  ELSE 10 * ReadNat(SubSeq(w, 1, Len(w) - 1)) + DigitValue(w[Len(w)])

(* An unquoted literal. *)
ReadWord(w) ==
  CASE w = <<"N", "U", "L", "L">> -> Read(Null, <<>>)
    [] w = <<"t", "r", "u", "e">> -> Read(Boolean(TRUE), <<>>)
    [] w = <<"f", "a", "l", "s", "e">> -> Read(Boolean(FALSE), <<>>)
    [] IsDigits(w) -> Read(Number(ReadNat(w)), <<>>)
    [] w # <<>> /\ Head(w) = "-" /\ IsDigits(Tail(w)) ->
         Read(Number(0 - ReadNat(Tail(w))), <<>>)
    [] OTHER -> Failed

ReadValue(s, dialect) ==
  IF s # <<>> /\ Head(s) = "'"
  THEN LET str == ReadString(Tail(s), dialect)
       IN IF str.ok THEN Read(String(str.val), str.rest) ELSE Failed
  ELSE LET w == Word(s, {",", ")"})
           lit == ReadWord(w)
       IN IF lit.ok THEN Read(lit.val, Drop(s, Len(w))) ELSE Failed

(* A value list up to and including its closing parenthesis. *)
RECURSIVE ReadValues(_, _)
ReadValues(s, dialect) ==
  LET v == ReadValue(s, dialect)
  IN IF ~v.ok THEN Failed
     ELSE IF StartsWith(v.rest, <<")">>) THEN Read(<<v.val>>, Tail(v.rest))
     ELSE IF StartsWith(v.rest, CommaSpace)
     THEN LET more == ReadValues(Drop(v.rest, 2), dialect)
          IN IF more.ok THEN Read(<<v.val>> \o more.val, more.rest) ELSE Failed
     ELSE Failed

(* A column list up to and including its closing parenthesis. *)
RECURSIVE ReadColumns(_)
ReadColumns(s) ==
  LET w == Word(s, {",", ")"})
      rest == Drop(s, Len(w))
  IN IF w = <<>> THEN Failed
     ELSE IF StartsWith(rest, <<")">>) THEN Read(<<w>>, Tail(rest))
     ELSE IF StartsWith(rest, CommaSpace)
     THEN LET more == ReadColumns(Drop(rest, 2))
          IN IF more.ok THEN Read(<<w>> \o more.val, more.rest) ELSE Failed
     ELSE Failed

(* One INSERT statement up to and including its semicolon: the table and   *)
(* the row it inserts.                                                     *)
ReadInsert(s, dialect) ==
  IF ~StartsWith(s, InsertInto) THEN Failed
  ELSE LET table == Word(Drop(s, Len(InsertInto)), {" "})
           afterTable == Drop(s, Len(InsertInto) + Len(table))
       IN IF table = <<>> \/ ~StartsWith(afterTable, <<" ", "(">>) THEN Failed
          ELSE LET cols == ReadColumns(Drop(afterTable, 2))
               IN IF ~cols.ok \/ ~StartsWith(<<")">> \o cols.rest, ValuesOpen)
                  THEN Failed
                  ELSE LET vals == ReadValues(Drop(cols.rest, Len(ValuesOpen) - 1),
                                              dialect)
                       IN IF vals.ok /\ Len(vals.val) = Len(cols.val)
                             /\ StartsWith(vals.rest, <<";">>)
                          THEN Read([table |-> table,
                                     row |-> Row(cols.val, vals.val)],
                                    Tail(vals.rest))
                          ELSE Failed

(* The statements of a text, one per line. *)
RECURSIVE ReadScript(_, _)
ReadScript(s, dialect) ==
  IF s = <<>> THEN Read(<<>>, <<>>)
  ELSE LET first == ReadInsert(s, dialect)
       IN IF ~first.ok THEN Failed
          ELSE IF first.rest = <<>> THEN Read(<<first.val>>, <<>>)
          ELSE IF Head(first.rest) # "\n" THEN Failed
          ELSE LET more == ReadScript(Tail(first.rest), dialect)
               IN IF more.ok THEN Read(<<first.val>> \o more.val, <<>>)
                  ELSE Failed

(* The rows of table after the text was replayed against it when empty:    *)
(* all of it is applied, or the replay fails.                              *)
Replay(text, table, dialect) ==
  LET script == ReadScript(text, dialect)
  IN IF script.ok /\ \A i \in DOMAIN script.val : script.val[i].table = table
     THEN [ok |-> TRUE, rows |-> [i \in DOMAIN script.val |-> script.val[i].row]]
     ELSE [ok |-> FALSE, rows |-> <<>>]

(* A data export that returned text. *)
Exported ==
  /\ last.op = "exportTableData"
  /\ last.status = "ok"
  /\ driver.calls = 1

Occurrences(rows, r) == Cardinality({i \in DOMAIN rows : rows[i] = r})

SameRows(a, b) ==
  /\ Len(a) = Len(b)
  /\ \A i \in DOMAIN a : Occurrences(a, a[i]) = Occurrences(b, a[i])

RoundTrip(dialect) ==
  LET replayed == Replay(last.value, last.arg, dialect)
  IN replayed.ok /\ SameRows(replayed.rows, driver.rows)

(* C7: replaying the text exportTableData returned, against the empty      *)
(* table it was exported from, gives back exactly the rows that were       *)
(* exported, on either relational backend.                                 *)
C7_RoundTrip == Exported => RoundTrip(config)

(* The round trip as far as it does hold: on PostgreSQL for every content, *)
(* and on MySQL for contents free of backslashes.                          *)
HasBackslash(rows) ==
  \E i \in DOMAIN rows : \E c \in DOMAIN rows[i].vals :
    /\ rows[i].vals[c].t = "string"
    /\ \E k \in DOMAIN rows[i].vals[c].s : rows[i].vals[c].s[k] = "\\"

RoundTripWithoutBackslashEscapes ==
  (Exported /\ (config = "postgres" \/ ~HasBackslash(driver.rows)))
    => RoundTrip(config)

(***************************************************************************)
(* The text the specification prescribes for an export, written from its   *)
(* wording and not from the code.                                          *)
(***************************************************************************)
QuotesBefore(s, i) == Cardinality({k \in 1..(i - 1) : s[k] = "'"})

(* s with every single quote doubled: character i of s stands at place     *)
(* i + QuotesBefore(s, i), and every other place holds the second quote of *)
(* a pair.                                                                 *)
Doubled(s) ==
  [k \in 1..(Len(s) + QuotesBefore(s, Len(s) + 1)) |->
     IF \E i \in DOMAIN s : k = i + QuotesBefore(s, i)
     THEN s[CHOOSE i \in DOMAIN s : k = i + QuotesBefore(s, i)]
     ELSE "'"]

(* The default textual representation of the numbers and booleans of the   *)
(* model.                                                                  *)
DefaultText(val) ==
  CASE val = Number(1) -> <<"1">>
    [] val = Number(-20) -> <<"-", "2", "0">>
    [] val = Boolean(TRUE) -> <<"t", "r", "u", "e">>
    [] val = Boolean(FALSE) -> <<"f", "a", "l", "s", "e">>

ExpectedValue(val) ==
  CASE val = Null -> <<"N", "U", "L", "L">>
    [] val.t = "string" -> <<"'">> \o Doubled(val.s) \o <<"'">>
    [] OTHER -> DefaultText(val)

(* The string a sequence of characters spells. *)
RECURSIVE Render(_)
Render(s) ==
  IF Len(s) = 0 THEN ""
  ELSE IF Len(s) = 1 THEN s[1]
  ELSE Render(SubSeq(s, 1, Len(s) \div 2))
       \o Render(SubSeq(s, (Len(s) \div 2) + 1, Len(s)))

RECURSIVE List(_, _)
List(texts, sep) ==
  IF Len(texts) = 1 THEN texts[1] ELSE texts[1] \o sep \o List(Tail(texts), sep)

ExpectedStatement(table, columns, row) ==
  "INSERT INTO " \o Render(table) \o " ("
  \o List([c \in DOMAIN columns |-> Render(columns[c])], ", ")
  \o ") VALUES ("
  \o List([c \in DOMAIN columns |-> Render(ExpectedValue(Get(row, columns[c])))], ", ")
  \o ");"

ExpectedExport(table, rows) ==
  IF rows = <<>> THEN ""
  ELSE List([i \in DOMAIN rows |-> ExpectedStatement(table, rows[1].keys, rows[i])],
            "\n")

(* The lines of a text. *)
RECURSIVE Lines(_)
Lines(text) ==
  LET line == Word(text, {"\n"})
  IN IF Len(line) = Len(text) THEN <<line>>
     ELSE <<line>> \o Lines(Drop(text, Len(line) + 1))

(* The text between "VALUES (" and ");" of a statement for table and       *)
(* columns.                                                                *)
ValueList(line, table, columns) ==
  SubSeq(line,
         Len(InsertInto) + Len(table) + 2 + Len(join(columns, CommaSpace))
           + Len(ValuesOpen) + 1,
         Len(line) - 2)

(* Texts put one after the other with sep between them. *)
RECURSIVE Concat(_, _)
Concat(texts, sep) ==
  IF Len(texts) = 1 THEN texts[1] ELSE texts[1] \o sep \o Concat(Tail(texts), sep)

Operations ==
  {"getTables", "getTriggers", "getFunctions", "executeQuery",
   "exportTableSchema", "exportTableData"}

SqlOperations == {"executeQuery", "exportTableSchema", "exportTableData"}

(* The slot of the configured kind. *)
configuredSlot ==
  CASE config = "postgres" -> postgresClient
    [] config = "mysql" -> mysqlConnection
    [] config = "firestore" -> firestoreClient
    [] OTHER -> NoHandle

(* The relational handles that are open. *)
LiveHandles ==
  {h \in DOMAIN handles :
     handles[h].state = "open" /\ handles[h].driver \in {"postgres", "mysql"}}

(* C1: an operation other than connect, called on an adapter on which      *)
(* connect was never called, fails with Not-Connected, whatever the kind.  *)
C1_NotConnectedBeforeConnect ==
  (~connectCalled /\ last.op \in Operations /\ config \in KnownTypes)
    => (last.status = "error" /\ last.class = "NotConnected")

(* C2: on firestore the three SQL operations always fail with              *)
(* Unsupported-Operation and issue no call on the handle.                  *)
C2_FirestoreSqlUnsupported ==
  (config = "firestore" /\ last.op \in SqlOperations)
    => (last.status = "error" /\ last.class = "Unsupported" /\ driver.calls = 0)

C2_Witness ==
  /\ config = "firestore"
  /\ firestoreClient # NoHandle
  /\ last.op = "executeQuery"
  /\ last.class = "Unsupported"

(* C3: at most one handle opened by the instance is live at a time.        *)
C3_AtMostOneLiveHandle == Cardinality(LiveHandles) <= 1

(* C4: while no connect call has completed successfully, the slot of the   *)
(* configured kind is empty.                                               *)
C4_NoHandleUntilConnectSucceeds ==
  ~connectSucceeded => configuredSlot = NoHandle

(* C5: connect on a kind outside postgres, mysql, firestore fails.         *)
C5_UnknownKindFailsAtConnect ==
  (config \notin KnownTypes /\ last.op = "connect") => last.status = "error"

(* C6: on firestore getTriggers and getFunctions return the empty sequence *)
(* without an error and without a call on the handle, in every state.      *)
C6_FirestoreNoTriggersNoFunctions ==
  (config = "firestore" /\ last.op \in {"getTriggers", "getFunctions"})
    => (last.status = "ok" /\ last.value = <<>> /\ driver.calls = 0)

C6_Witness ==
  /\ config = "firestore"
  /\ ~connectCalled
  /\ last.op = "getTriggers"
  /\ last.status = "ok"

(* C8: every column value is exported as NULL when null, in single quotes  *)
(* with its quotes doubled when a string, as its default text otherwise.   *)
C8_ValueFormatting ==
  Exported =>
    \A i \in DOMAIN driver.rows :
      LET row == driver.rows[i]
          columns == driver.rows[1].keys
      IN ValueList(Lines(last.value)[i], last.arg, columns)
           = Concat([c \in DOMAIN columns |-> ExpectedValue(Get(row, columns[c]))],
                    CommaSpace)

C8_Witness ==
  /\ Exported
  /\ driver.rows = <<Row(<<id, name>>, <<Null, String(<<"O", "'", "B">>)>>)>>
  /\ Render(last.value) = "INSERT INTO users (id, name) VALUES (NULL, 'O''B');"

(* C9: the export is one INSERT statement per row, in row order, joined by *)
(* newlines, with the columns of the first row; the empty string for no    *)
(* rows; and for users holding (1, NULL) exactly the statement below.      *)
C9_OneInsertPerRow ==
  Exported =>
    /\ Render(last.value) = ExpectedExport(last.arg, driver.rows)
    /\ driver.rows = <<>> => last.value = <<>>
    /\ driver.rows # <<>> => Len(Lines(last.value)) = Len(driver.rows)
    /\ (last.arg = users
        /\ driver.rows = <<Row(<<id, name>>, <<Number(1), Null>>)>>)
         => Render(last.value) = "INSERT INTO users (id, name) VALUES (1, NULL);"

C9_Witness ==
  /\ Exported
  /\ Len(driver.rows) = 2
  /\ driver.rows[1] # driver.rows[2]
  /\ Len(Lines(last.value)) = 2

(* C10: an error the driver reports reaches the caller as that error, with *)
(* its message, after exactly one driver call, and never as a result.      *)
C10_DriverErrorPropagated ==
  driver.failure # "none"
    => /\ last.status = "error"
       /\ last.class = "Backend"
       /\ last.msg = driver.failure
       /\ driver.calls = 1

C10_Witness ==
  /\ last.op = "executeQuery"
  /\ driver.failure = "relation does not exist"
  /\ last.msg = "relation does not exist"

Relational == {"postgres", "mysql"}

(* The place in slots of the slot of the configured kind (none for a kind  *)
(* outside the three).                                                     *)
configuredPlace ==
  CASE config = "postgres" -> {1}
    [] config = "mysql" -> {2}
    [] config = "firestore" -> {3}
    [] OTHER -> {}

(* This step is the completion of one of the six operations. *)
OperationStep ==
  /\ last'.op \in Operations
  /\ (last' # last \/ driver' # driver)

(* This step is the completion of a disconnect. *)
DisconnectStep ==
  /\ last'.op = "disconnect"
  /\ (last' # last \/ driver' # driver)

(* C11: the six operations change neither the configuration nor a handle   *)
(* slot, whether they succeed or fail; a slot changes only in a step of    *)
(* connect, and only the slot of the configured kind, to a handle connect  *)
(* created; and no result is kept and reused: on a relational kind an      *)
(* operation is either rejected for the empty slot or issues one query of  *)
(* its own.                                                                *)
C11_OnlyConnectAssignsHandles ==
  /\ [][/\ config' = config
        /\ OperationStep => (slots' = slots /\ handles' = handles)
        /\ slots' # slots =>
             /\ connectCalled'
             /\ last' = last \/ last'.op = "connect"
             /\ \A k \in 1..3 :
                  slots'[k] # slots[k] =>
                    /\ k \in configuredPlace
                    /\ slots'[k] \in DOMAIN handles'
                    /\ handles'[slots'[k]].driver = config]_vars
  /\ [](((last.op \in Operations /\ config \in Relational)
          => /\ driver.calls \in {0, 1}
             /\ driver.calls = 0 => last.class \in {"NotConnected", "TypeError"}
             /\ last.status = "ok" => driver.calls = 1))

C11_Witness ==
  /\ config = "postgres"
  /\ last.op = "getTables"
  /\ last.status = "ok"
  /\ driver.calls = 1
  /\ postgresClient = driver.handle
  /\ Len(handles) = 1

(* C14: disconnect never empties a slot and never fails for want of a      *)
(* connection: without a handle, and on firestore always, it completes     *)
(* without a driver call; a slot once filled is never empty again; so once *)
(* a handle was closed the SQL operations no longer fail with              *)
(* Not-Connected but call the driver.                                      *)
C14_DisconnectKeepsSlot ==
  /\ [][/\ \A k \in 1..3 : slots[k] # NoHandle => slots'[k] # NoHandle
        /\ DisconnectStep =>
             /\ slots' = slots
             /\ \A h \in DOMAIN handles :
                  handles'[h] # handles[h] =>
                    (h = disconnectSlot /\ handles'[h].state = "closed")]_vars
  /\ [](/\ last.op = "disconnect" =>
             /\ last.class \notin {"NotConnected", "TypeError"}
             /\ driver.calls = 0 => last.status = "ok"
             /\ (config \notin Relational \/ ~connectCalled) =>
                  (driver.calls = 0 /\ last.status = "ok")
        /\ (last.op \in SqlOperations /\ config \in Relational
            /\ \E h \in DOMAIN handles : handles[h].state = "closed")
             => (last.class # "NotConnected" /\ driver.calls = 1))

C14_Witness ==
  /\ last.op = "executeQuery"
  /\ driver.handle # NoHandle
  /\ configuredSlot = driver.handle
  /\ handles[driver.handle].state = "closed"
  /\ last.class = "Backend"


(***************************************************************************)
(* The command shell.                                                      *)
(***************************************************************************)

(* Every handle an adapter of the shell has created, oldest first. *)
AllHandles == abandoned \o handles

OpenRelational ==
  {h \in DOMAIN AllHandles :
     AllHandles[h].state = "open" /\ AllHandles[h].driver \in Relational}

(* C12: in the shell, a connection command replaces the adapter reference  *)
(* without calling disconnect on the old adapter: the handles of the old   *)
(* adapter are set aside as they are, a handle that is open stays open     *)
(* through every later command, no handle is ever closed, and the number   *)
(* of open relational handles equals the number of relational connection   *)
(* commands that succeeded.                                                *)
C12_ReplacedHandleStaysOpen ==
  /\ [][/\ abandoned' # abandoned /\ Len(abandoned') > Len(abandoned)
             => abandoned' = abandoned \o handles
        /\ \A h \in DOMAIN AllHandles :
             /\ h \in DOMAIN AllHandles'
             /\ AllHandles'[h].driver = AllHandles[h].driver
             /\ AllHandles[h].state = "open" => AllHandles'[h].state = "open"]_vars
  /\ [](/\ Cardinality(OpenRelational) = connected
        /\ \A h \in DOMAIN AllHandles : AllHandles[h].state # "closed"
        /\ last.op # "disconnect")

C12_Witness ==
  /\ connected = 2
  /\ Len(abandoned) = 1 /\ abandoned[1].state = "open"
  /\ Len(handles) = 1 /\ handles[1].state = "open"
  /\ reply.cmd = "!tables" /\ ~reply.isError

OperationCommands ==
  {"!tables", "!triggers", "!functions", "!query", "!export-db", "!export-data"}

(* A step in which an operation command replied. *)
OperationCommandStep ==
  /\ reply'.cmd \in OperationCommands
  /\ reply' # reply \/ (last' # last /\ last'.op \in Operations)

Refused(r) == r.isError /\ r.text = <<MustConnectFirst>>

(* C13: the shell's adapter reference is non-null exactly when a           *)
(* connection command has been started, succeeded or not: it is assigned   *)
(* before connect is awaited and never reset.  An operation command is     *)
(* refused with "You must connect to a database first!", the adapter       *)
(* untouched, exactly while no connection command was started; otherwise   *)
(* it is dispatched to the adapter the reference points to now, whatever   *)
(* became of its connect(), and never reaches a handle of an adapter that  *)
(* was replaced.                                                           *)
C13_ReferenceSetByFirstConnectionCommand ==
  /\ []((dbService # "null") <=> started)
  /\ [][/\ dbService # "null" => dbService' # "null"
        /\ OperationCommandStep =>
             /\ Refused(reply') <=> ~started
             /\ Refused(reply') => UNCHANGED adapter
             /\ ~Refused(reply') =>
                  /\ last'.op \in Operations
                  /\ abandoned' = abandoned
                  /\ handles' = handles
                  /\ driver'.handle \in {NoHandle} \cup DOMAIN handles
                  /\ driver'.handle # NoHandle => driver'.handle = configuredSlot
                  /\ reply'.isError <=> last'.status # "ok"]_vars
  /\ [](\A k \in 1..3 : slots[k] \in {NoHandle} \cup DOMAIN handles)

(* One connection command succeeded and its handle is open, the reference  *)
(* points to the adapter of another connection command that failed, and    *)
(* an operation command went to that adapter, which has no handle to use.  *)
C13_Witness ==
  /\ started /\ ~connectSucceeded /\ connected = 1
  /\ Len(handles) = 1 /\ handles[1].state = "failed"
  /\ Len(abandoned) = 1 /\ abandoned[1].state = "open"
  /\ reply.cmd = "!tables" /\ reply.isError /\ ~Refused(reply)
  /\ last.op = "getTables" /\ last.status # "ok" /\ driver.calls = 0
====
